---- MODULE Spec2Model ----
(***************************************************************************)
(* Model of ta::indicators::Minimum (src/indicators/minimum.rs): a         *)
(* sliding-window minimum over the last `length` samples, kept in a        *)
(* circular buffer `vec` with the index of the incumbent minimum           *)
(* (`min_index`) and the write cursor (`cur_index`).                       *)
(***************************************************************************)
EXTENDS Integers, Sequences, FiniteSets, TLC

\* ------------------------------------------------------------------ bounds
MaxLength == 3        \* window lengths 0..MaxLength are tried by new()
MaxSample == 3        \* finite samples are 1..MaxSample
MaxCalls == 8         \* next() calls after construction
MaxResets == 2        \* reset() calls after construction
MaxDefaultCalls == 15 \* next() calls after default(): one past the wrap
MaxDefaultResets == 1 \* reset() calls after default()

\* ------------------------------------------------------ f64 values and `<`
\* An f64 is a finite number, +infinity or not-a-number.
Num(n) == [kind |-> "num", v |-> n]
INFINITY == [kind |-> "inf", v |-> 0]
NAN == [kind |-> "nan", v |-> 0]

\* IEEE-754 `a < b`: false as soon as one side is not-a-number.
Lt(a, b) ==
    IF a.kind = "nan" \/ b.kind = "nan" THEN FALSE
    ELSE IF a.kind = "inf" THEN FALSE
    ELSE IF b.kind = "inf" THEN TRUE
    ELSE a.v < b.v

\* IEEE-754 `a <= b`.
Le(a, b) ==
    IF a.kind = "nan" \/ b.kind = "nan" THEN FALSE
    ELSE Lt(a, b) \/ a = b

RealSamples == {Num(n) : n \in 1..MaxSample} \cup {INFINITY}
AllSamples == RealSamples \cup {NAN}

\* ------------------------------------------------------------ the tracker
\* The value held where no Minimum exists.
NoTracker == [length |-> 0, vec |-> <<>>, min_index |-> 0, cur_index |-> 0]

\* Result<Minimum>: Ok(value) or Err(kind).
Ok(t) == [ok |-> TRUE, kind |-> "none", value |-> t]
Err(k) == [ok |-> FALSE, kind |-> k, value |-> NoTracker]

\* Minimum::new with the length check testing `< 0` only.
new_unchecked_zero(length) ==
    IF length < 0
    THEN Err("InvalidParameter")
    ELSE Ok([length |-> length,
             vec |-> [i \in 0..(length - 1) |-> INFINITY],
             min_index |-> 0,
             cur_index |-> 0])

\* Minimum::new
new(length) ==
    IF length <= 0
    THEN Err("InvalidParameter")
    ELSE Ok([length |-> length,
             vec |-> [i \in 0..(length - 1) |-> INFINITY],
             min_index |-> 0,
             cur_index |-> 0])

\* The loop of find_min_index with the comparison turned round (`min < val`).
RECURSIVE find_min_loop_max(_, _, _, _)
find_min_loop_max(vec, i, min, index) ==
    IF i \notin DOMAIN vec THEN index
    ELSE IF Lt(min, vec[i])
         THEN find_min_loop_max(vec, i + 1, vec[i], i)
         ELSE find_min_loop_max(vec, i + 1, min, index)

\* Minimum::find_min_index: the loop over vec with its (min, index) pair.
RECURSIVE find_min_loop(_, _, _, _)
find_min_loop(vec, i, min, index) ==
    IF i \notin DOMAIN vec THEN index
    ELSE IF Lt(vec[i], min)
         THEN find_min_loop(vec, i + 1, vec[i], i)
         ELSE find_min_loop(vec, i + 1, min, index)

\* find_min_index comparing with `<=`: the last of several equal minima wins.
RECURSIVE find_last_min_loop(_, _, _, _)
find_last_min_loop(vec, i, min, index) ==
    IF i \notin DOMAIN vec THEN index
    ELSE IF Le(vec[i], min)
         THEN find_last_min_loop(vec, i + 1, vec[i], i)
         ELSE find_last_min_loop(vec, i + 1, min, index)

find_min_index_last(self) == find_last_min_loop(self.vec, 0, INFINITY, 0)

find_min_index(self) == find_min_loop(self.vec, 0, INFINITY, 0)

\* The branches of next() without the `else if`: never a rescan.
next_branch_no_rescan(vec, min_index, cur_index, input) ==
    IF Lt(input, vec[min_index]) THEN "lt" ELSE "keep"

\* The branches of next() with `input <= self.vec[self.min_index]`.
next_branch_le(vec, min_index, cur_index, input) ==
    IF Le(input, vec[min_index]) THEN "lt"
    ELSE IF min_index = cur_index THEN "rescan"
    ELSE "keep"

\* Next<f64>::next, the branch taken by the if / else if on the buffer
\* `vec` that already holds the input: "lt" sets min_index to cur_index,
\* "rescan" calls find_min_index(), "keep" leaves min_index alone.
next_branch(vec, min_index, cur_index, input) ==
    IF Lt(input, vec[min_index]) THEN "lt"
    ELSE IF min_index = cur_index THEN "rescan"
    ELSE "keep"

\* next() running find_min_index() on the buffer as it was before the write.
next_scan_before_write(self, input) ==
    LET vec == [self.vec EXCEPT ![self.cur_index] = input]
        branch == next_branch(vec, self.min_index, self.cur_index, input)
        min_index ==
            IF branch = "lt" THEN self.cur_index
            ELSE IF branch = "rescan" THEN find_min_index(self)
            ELSE self.min_index
        cur_index ==
            IF self.cur_index + 1 < self.length THEN self.cur_index + 1 ELSE 0
    IN  [length |-> self.length, vec |-> vec,
         min_index |-> min_index, cur_index |-> cur_index]

\* next() wrapping the cursor one step late (`cur_index + 1 <= length`).
next_wrap_late(self, input) ==
    LET vec == [self.vec EXCEPT ![self.cur_index] = input]
        written == [self EXCEPT !.vec = vec]
        branch == next_branch(vec, self.min_index, self.cur_index, input)
        min_index ==
            IF branch = "lt" THEN self.cur_index
            ELSE IF branch = "rescan" THEN find_min_index(written)
            ELSE self.min_index
        cur_index ==
            IF self.cur_index + 1 <= self.length THEN self.cur_index + 1 ELSE 0
    IN  [length |-> self.length, vec |-> vec,
         min_index |-> min_index, cur_index |-> cur_index]

\* next() wrapping the cursor one step early (`cur_index + 1 < length - 1`).
next_wrap_early(self, input) ==
    LET vec == [self.vec EXCEPT ![self.cur_index] = input]
        written == [self EXCEPT !.vec = vec]
        branch == next_branch(vec, self.min_index, self.cur_index, input)
        min_index ==
            IF branch = "lt" THEN self.cur_index
            ELSE IF branch = "rescan" THEN find_min_index(written)
            ELSE self.min_index
        cur_index ==
            IF self.cur_index + 1 < self.length - 1
            THEN self.cur_index + 1 ELSE 0
    IN  [length |-> self.length, vec |-> vec,
         min_index |-> min_index, cur_index |-> cur_index]

\* next() moving the cursor before the "lt" branch reads it.
next_advance_first(self, input) ==
    LET vec == [self.vec EXCEPT ![self.cur_index] = input]
        written == [self EXCEPT !.vec = vec]
        branch == next_branch(vec, self.min_index, self.cur_index, input)
        cur_index ==
            IF self.cur_index + 1 < self.length THEN self.cur_index + 1 ELSE 0
        min_index ==
            IF branch = "lt" THEN cur_index
            ELSE IF branch = "rescan" THEN find_min_index(written)
            ELSE self.min_index
    IN  [length |-> self.length, vec |-> vec,
         min_index |-> min_index, cur_index |-> cur_index]

\* next() storing the input in the slot after the cursor.
next_write_ahead(self, input) ==
    LET ahead == IF self.cur_index + 1 < self.length
                 THEN self.cur_index + 1 ELSE 0
        vec == [self.vec EXCEPT ![ahead] = input]
        written == [self EXCEPT !.vec = vec]
        branch == next_branch(vec, self.min_index, self.cur_index, input)
        min_index ==
            IF branch = "lt" THEN self.cur_index
            ELSE IF branch = "rescan" THEN find_min_index(written)
            ELSE self.min_index
    IN  [length |-> self.length, vec |-> vec,
         min_index |-> min_index, cur_index |-> ahead]

\* Next<f64>::next: the tracker after the call.
next(self, input) ==
    LET vec == [self.vec EXCEPT ![self.cur_index] = input]
        written == [self EXCEPT !.vec = vec]
        branch == next_branch(vec, self.min_index, self.cur_index, input)
        min_index ==
            IF branch = "lt" THEN self.cur_index
            ELSE IF branch = "rescan" THEN find_min_index(written)
            ELSE self.min_index
        cur_index ==
            IF self.cur_index + 1 < self.length THEN self.cur_index + 1 ELSE 0
    IN  [length |-> self.length, vec |-> vec,
         min_index |-> min_index, cur_index |-> cur_index]

\* Next<f64>::next: the value returned.
next_output(self, input) ==
    LET after == next(self, input) IN after.vec[after.min_index]

\* reset() with the loop stopping one slot short (`0..self.length - 1`).
reset_skip_last(self) ==
    [self EXCEPT !.vec = [i \in 0..(self.length - 1) |->
        IF i < self.length - 1 THEN INFINITY ELSE self.vec[i]]]

\* Reset::reset
reset(self) ==
    [self EXCEPT !.vec = [i \in 0..(self.length - 1) |-> INFINITY]]

\* default() with another length.
default_13 == new(13).value

\* Default::default
default == new(14).value

\* ------------------------------------------------------------------ state
VARIABLES
    result,    \* "none" before construction, then "Ok" or the error kind
    self,      \* the Minimum under observation
    ref,       \* a second Minimum fed the same samples (see the actions)
    op,        \* the last operation: "none", "new", "default", "next", "reset"
    arg,       \* its argument: the length of new(), the input of next()
    out,       \* the value returned by the last next() on self
    refout,    \* the value returned by the last next() on ref
    c0,        \* cur_index when the last next() started
    m0,        \* min_index when the last next() started
    rule,      \* the branch the last next() took: "lt", "rescan", "keep"
    hist,      \* the last min(length, n) inputs, n counted from new()/reset()
    stamp,     \* per slot: the number of the next() call that wrote it, 0 if
               \* it holds no sample written since new()/reset()
    tieScan,   \* some find_min_index() since new()/reset() found the
               \* smallest value in more than one sample slot
    calls,     \* number of next() calls since construction
    resets,    \* number of reset() calls since construction
    increasing,\* every input since construction exceeded the one before
    ltAge      \* next() calls since the last one that took the "lt" branch,
               \* counted up to length; -1 if none since new()/reset()

vars == <<result, self, ref, op, arg, out, refout, c0, m0, rule, hist, stamp,
          tieScan, calls, resets, increasing, ltAge>>

Init ==
    /\ result = "none"
    /\ self = NoTracker
    /\ ref = NoTracker
    /\ op = "none"
    /\ arg = Num(0)
    /\ out = INFINITY
    /\ refout = INFINITY
    /\ c0 = 0
    /\ m0 = 0
    /\ rule = "none"
    /\ hist = <<>>
    /\ stamp = <<>>
    /\ tieScan = FALSE
    /\ calls = 0
    /\ resets = 0
    /\ increasing = TRUE
    /\ ltAge = -1

\* The last `n` elements of s (all of s when it is shorter).
LastN(s, n) == IF Len(s) <= n THEN s ELSE SubSeq(s, Len(s) - n + 1, Len(s))

\* The slots of vec that hold the value x.
SlotsHolding(vec, x) == {i \in DOMAIN vec : vec[i] = x}

\* What the observer records when a tracker comes into existence.
Constructed(r, name, length) ==
    /\ result' = IF r.ok THEN "Ok" ELSE r.kind
    /\ self' = r.value
    /\ op' = name
    /\ arg' = Num(length)
    /\ hist' = <<>>
    /\ stamp' = [i \in DOMAIN r.value.vec |-> 0]
    /\ tieScan' = FALSE
    /\ ltAge' = -1
    /\ UNCHANGED <<out, refout, c0, m0, rule, calls, resets, increasing>>

\* let min = Minimum::new(length)
DoNew(length) ==
    /\ result = "none"
    /\ Constructed(new(length), "new", length)
    /\ ref' = new(length).value

\* let min = Minimum::default(), next to ref = Minimum::new(14).unwrap()
DoDefault ==
    /\ result = "none"
    /\ Constructed(Ok(default), "default", 0)
    /\ ref' = new(14).value

\* min.next(input), the same input going to ref
DoNext(input, maxCalls) ==
    /\ result = "Ok"
    /\ calls < maxCalls
    /\ self' = next(self, input)
    /\ out' = next_output(self, input)
    /\ ref' = next(ref, input)
    /\ refout' = next_output(ref, input)
    /\ op' = "next"
    /\ arg' = input
    /\ c0' = self.cur_index
    /\ m0' = self.min_index
    /\ rule' = next_branch([self.vec EXCEPT ![self.cur_index] = input],
                           self.min_index, self.cur_index, input)
    /\ hist' = LastN(Append(hist, input), self.length)
    /\ stamp' = [stamp EXCEPT ![self.cur_index] = calls + 1]
    /\ tieScan' = (tieScan \/ (rule' = "rescan" /\
                     Cardinality({i \in SlotsHolding(self'.vec, out') :
                                     stamp'[i] > 0}) > 1))
    /\ calls' = calls + 1
    /\ increasing' = (increasing /\ (calls = 0 \/ Lt(arg, input)))
    /\ ltAge' = IF rule' = "lt" THEN 0
                ELSE IF ltAge = -1 THEN -1
                ELSE IF ltAge < self.length THEN ltAge + 1
                ELSE self.length
    /\ UNCHANGED <<result, resets>>

\* What the observer records at a reset().
ResetObserved(maxResets) ==
    /\ result = "Ok"
    /\ resets < maxResets
    /\ op' = "reset"
    /\ hist' = <<>>
    /\ stamp' = [i \in DOMAIN stamp |-> 0]
    /\ tieScan' = FALSE
    /\ resets' = resets + 1
    /\ ltAge' = -1
    /\ UNCHANGED <<result, arg, out, refout, c0, m0, rule, calls, increasing>>

\* min.reset(); ref is replaced by a freshly constructed tracker of the
\* same length, so that ref always shows the run "from construction".
DoReset ==
    /\ ResetObserved(MaxResets)
    /\ self' = reset(self)
    /\ ref' = new(self.length).value

\* Samples are real numbers (no not-a-number).
Next ==
    \/ \E length \in 0..MaxLength : DoNew(length)
    \/ \E input \in RealSamples : DoNext(input, MaxCalls)
    \/ DoReset

Spec == Init /\ [][Next]_vars

\* Samples are any f64, not-a-number included.
NextNaN ==
    \/ \E length \in 0..MaxLength : DoNew(length)
    \/ \E input \in AllSamples : DoNext(input, MaxCalls)
    \/ DoReset

SpecNaN == Init /\ [][NextNaN]_vars

\* min.reset() and ref.reset(): both trackers go through the same calls.
DoResetBoth ==
    /\ ResetObserved(MaxDefaultResets)
    /\ self' = reset(self)
    /\ ref' = reset(ref)

\* The samples fed to the default tracker: a low and a high one.
DefaultSamples == {Num(1), Num(2)}

\* The tracker is built by default(), ref by new(14).
NextDefault ==
    \/ DoDefault
    \/ \E input \in DefaultSamples : DoNext(input, MaxDefaultCalls)
    \/ DoResetBoth

SpecDefault == Init /\ [][NextDefault]_vars

\* ----------------------------------------------------------------- claims
Range(s) == {s[i] : i \in DOMAIN s}

\* Brute force: the smallest of the samples in s.
BruteMin(s) == CHOOSE x \in Range(s) : \A y \in Range(s) : Le(x, y)

\* The lowest slot among those holding the smallest value of vec.
LowestMinSlot(vec) ==
    CHOOSE i \in DOMAIN vec :
        /\ \A j \in DOMAIN vec : Le(vec[i], vec[j])
        /\ \A j \in DOMAIN vec : j < i => vec[j] # vec[i]

\* C1: with real samples, the value returned by every next() is the
\* minimum of the last min(length, k) samples supplied, k being the number
\* of samples fed so far (hist is exactly that window).
C1_WindowMinimum ==
    op = "next" => out = BruteMin(hist)

\* A call after the window has wrapped, answered with an older sample.
C1_Witness ==
    /\ op = "next" /\ resets = 0
    /\ calls > self.length /\ self.length >= 2
    /\ out # arg /\ out = BruteMin(hist)

\* C2: reset() leaves the tracker in the state new(length) built: every
\* slot +infinity, min_index = 0 and cur_index = 0.
C2_ResetRestoresInitialState ==
    op = "reset" => self = new(self.length).value

\* C3: after reset(), the outputs of next() equal, call for call, those of
\* a freshly constructed tracker of the same length fed the same samples.
C3_ResetDiscardsHistory ==
    op = "next" => out = refout

\* C4: new(length) fails with InvalidParameter exactly when length = 0 and
\* then creates no tracker; otherwise it yields `length` slots of
\* +infinity with min_index = 0 and cur_index = 0.
C4_Construction ==
    op = "new" =>
        /\ result \in {"Ok", "InvalidParameter"}
        /\ result = "InvalidParameter" <=> arg.v = 0
        /\ result = "InvalidParameter" => self = NoTracker
        /\ result = "Ok" =>
            /\ self.length = arg.v
            /\ DOMAIN self.vec = 0..(arg.v - 1)
            /\ \A i \in DOMAIN self.vec : self.vec[i] = INFINITY
            /\ self.min_index = 0
            /\ self.cur_index = 0

\* new(0) was refused.
C4_Witness ==
    op = "new" /\ arg.v = 0 /\ result = "InvalidParameter" /\ self = NoTracker

\* C5: with real samples, in every state after construction
\* vec[min_index] <= vec[i] for every slot i.
C5_MinIndexIsMinimum ==
    result = "Ok" =>
        \A i \in DOMAIN self.vec : Le(self.vec[self.min_index], self.vec[i])

\* A rescan after a reset and a wrap left the minimum in a later slot.
C5_Witness ==
    /\ op = "next" /\ rule = "rescan" /\ resets > 0
    /\ Len(hist) = self.length /\ self.min_index > 0
    /\ \E i \in DOMAIN self.vec : Lt(self.vec[self.min_index], self.vec[i])

\* C6 as claimed: after every next(), no slot below min_index holds the
\* value of vec[min_index].
C6_LowestIndexAmongTies ==
    op = "next" =>
        \A i \in DOMAIN self.vec :
            i < self.min_index => self.vec[i] # self.vec[self.min_index]

\* C6 as amended: after every next() that assigns min_index (the "lt"
\* branch or the rescan), min_index is the lowest slot among those holding
\* the smallest value.
C6_LowestIndexWhenAssigned ==
    (op = "next" /\ rule \in {"lt", "rescan"}) =>
        self.min_index = LowestMinSlot(self.vec)

\* A rescan chose slot 0 among several slots holding the minimum.
C6_Witness ==
    /\ op = "next" /\ rule = "rescan" /\ calls > self.length
    /\ self.min_index = LowestMinSlot(self.vec)
    /\ Cardinality(SlotsHolding(self.vec, self.vec[self.min_index])) > 1
    /\ self.vec[self.min_index] # INFINITY

\* The slots that hold a sample written since new()/reset().
Live == {i \in DOMAIN stamp : stamp[i] > 0}

\* C7 as claimed: after every next(), no sample slot holding the value of
\* vec[min_index] was written before the slot at min_index.
C7_EarliestWrittenAmongTies ==
    op = "next" =>
        \A j \in Live :
            self.vec[j] = self.vec[self.min_index]
                => stamp[self.min_index] <= stamp[j]

\* C7 as amended: the same, as long as no rescan since new()/reset() has
\* found the smallest value in more than one sample slot.
C7_EarliestWrittenUntilTiedRescan ==
    (op = "next" /\ ~tieScan) =>
        \A j \in Live :
            self.vec[j] = self.vec[self.min_index]
                => stamp[self.min_index] <= stamp[j]

\* After a wrap, a sample equal to the incumbent arrived in a lower slot
\* and the incumbent, written earlier, stayed selected.
C7_Witness ==
    /\ op = "next" /\ ~tieScan /\ rule = "keep"
    /\ calls > self.length
    /\ arg = self.vec[self.min_index]
    /\ c0 < self.min_index
    /\ stamp[self.min_index] < stamp[c0]

\* C8: with not-a-number among the samples, the slot at min_index never
\* holds not-a-number after a next(), so next() never returns it.
C8_NeverNaN ==
    op = "next" => (self.vec[self.min_index] # NAN /\ out # NAN)

\* C10: with c0 and m0 the cursor and min_index at the start of next() and
\* real samples: c0 # m0 and input < vec[m0] gives min_index = c0; c0 = m0
\* gives the lowest slot holding the smallest value of the updated buffer,
\* by a rescan; otherwise min_index = m0; and a rescan happens only when
\* c0 = m0.
C10_MinPointerMaintenance ==
    op = "next" =>
        /\ (c0 # m0 /\ Lt(arg, self.vec[m0])) => self.min_index = c0
        /\ c0 = m0 =>
            (rule = "rescan" /\ self.min_index = LowestMinSlot(self.vec))
        /\ (c0 # m0 /\ ~Lt(arg, self.vec[m0])) => self.min_index = m0
        /\ rule = "rescan" => c0 = m0

\* A rescan moved min_index off the overwritten slot.
C10_Witness ==
    /\ op = "next" /\ rule = "rescan" /\ c0 = m0
    /\ self.min_index # m0
    /\ self.min_index = LowestMinSlot(self.vec)

\* C9: default() yields the state of new(14), and from then on the default
\* tracker and one built by new(14) go through the same states and return
\* the same values under the same next() and reset() calls.
C9_DefaultIsNew14 ==
    /\ op = "default" =>
        /\ result = "Ok"
        /\ self.length = 14
        /\ DOMAIN self.vec = 0..13
        /\ \A i \in DOMAIN self.vec : self.vec[i] = INFINITY
        /\ self.min_index = 0
        /\ self.cur_index = 0
    /\ result = "Ok" => (self = ref /\ out = refout)

\* The default tracker wrapped around its 14 slots, a reset in between.
C9_Witness ==
    /\ op = "next" /\ resets = 1 /\ calls > 14
    /\ self.length = 14 /\ self.cur_index = 1
    /\ self = ref /\ out = refout /\ out # INFINITY

\* C11: every next() moves the cursor to (cursor + 1) mod length whatever
\* branch it took; no other operation on a constructed tracker moves it
\* forward; and without a reset cur_index = calls mod length.
C11_CursorAdvance ==
    /\ [](result = "Ok" =>
            /\ op = "next" => self.cur_index = (c0 + 1) % self.length
            /\ resets = 0 => self.cur_index = calls % self.length)
    /\ [][(result = "Ok" /\ op' # "next")
            => self'.cur_index <= self.cur_index]_vars

\* The cursor wrapped to 0 for the second time, no reset so far.
C11_Witness ==
    /\ op = "next" /\ resets = 0 /\ self.length >= 2
    /\ calls = 2 * self.length
    /\ c0 = self.length - 1 /\ self.cur_index = 0

\* C12: next(input) stores input in vec[cur_index] (the cursor at entry)
\* and changes no other slot; neither next() nor reset() changes length.
C12_Frame ==
    [][result = "Ok" =>
        /\ self'.length = self.length
        /\ op' = "next" =>
            self'.vec = [self.vec EXCEPT ![self.cur_index] = arg']
        /\ op' = "reset" => DOMAIN self'.vec = DOMAIN self.vec]_vars

\* A next() overwrote one slot and left two different older samples.
C12_Witness ==
    /\ op = "next" /\ self.length = 3 /\ calls > 3
    /\ self.vec[c0] = arg
    /\ \E i, j \in DOMAIN self.vec :
        /\ i # c0 /\ j # c0 /\ i # j
        /\ self.vec[i] # self.vec[j]
        /\ self.vec[i] # arg /\ self.vec[j] # arg

\* C13: after a successful construction the buffer has exactly `length`
\* slots, length >= 1, and min_index and cur_index are in 0..length-1, for
\* any f64 sample: no call indexes vec out of range or ends in an error.
C13_IndicesInRange ==
    result = "Ok" =>
        /\ self.length >= 1
        /\ DOMAIN self.vec = 0..(self.length - 1)
        /\ self.min_index \in 0..(self.length - 1)
        /\ self.cur_index \in 0..(self.length - 1)
        /\ \A i \in DOMAIN self.vec : self.vec[i] \in AllSamples

\* A rescan over a buffer of not-a-number slots, after a reset.
C13_Witness ==
    /\ op = "next" /\ rule = "rescan" /\ resets > 0 /\ arg = NAN
    /\ self.length >= 2
    /\ self.min_index = 0 /\ self.cur_index = self.length - 1
    /\ \A i \in DOMAIN self.vec : i # self.cur_index => self.vec[i] = NAN

\* C14: on a freshly constructed tracker fed a strictly increasing
\* sequence, every next() from the (length + 1)-th on starts with
\* cur_index = min_index and runs find_min_index().
C14_IncreasingRescansEveryCall ==
    (op = "next" /\ resets = 0 /\ increasing /\ calls > self.length) =>
        (c0 = m0 /\ rule = "rescan")

\* Length 2, four increasing samples: the fourth call rescans as the
\* third did.
C14_Witness ==
    /\ op = "next" /\ resets = 0 /\ increasing
    /\ self.length = 2 /\ calls = 4
    /\ c0 = m0 /\ rule = "rescan" /\ self.min_index # m0

\* C15: none of the length - 1 next() calls that follow a call of the "lt"
\* branch (no reset in between) runs find_min_index(); in those calls
\* min_index moves only by the "lt" branch again, otherwise it stays.
C15_NoRescanAfterLt ==
    op = "next" =>
        /\ rule = "rescan" => (ltAge = -1 \/ ltAge >= self.length)
        /\ ltAge \in 1..(self.length - 1) =>
            (rule = "keep" /\ self.min_index = m0)

\* The rescan came exactly `length` calls after the "lt" call, when the
\* slot of that sample was overwritten.
C15_Witness ==
    /\ op = "next" /\ rule = "rescan" /\ self.length = 3
    /\ ltAge = self.length
    /\ calls > self.length
    /\ c0 = m0 /\ self.min_index # m0

\* The slot j steps behind the cursor on the ring of `length` slots.
SlotBehind(j) == (self.cur_index + self.length - j) % self.length

\* C16: with n the number of next() calls since new() or the last reset(),
\* for every j in 1..min(length, n) the slot j steps behind the cursor
\* holds the j-th most recent input, and every other slot holds +infinity.
C16_BufferLayout ==
    result = "Ok" =>
        /\ \A j \in 1..Len(hist) :
            self.vec[SlotBehind(j)] = hist[Len(hist) - j + 1]
        /\ \A i \in DOMAIN self.vec :
            i \notin {SlotBehind(j) : j \in 1..Len(hist)}
                => self.vec[i] = INFINITY

\* After a reset at the last slot, two inputs were written across the
\* wrap and the cursor points to a slot still holding the sentinel.
C16_Witness ==
    /\ op = "next" /\ resets > 0 /\ self.length = 3
    /\ Len(hist) = 2 /\ self.cur_index = 1
    /\ hist[1] # INFINITY /\ hist[2] # INFINITY /\ hist[1] # hist[2]
    /\ self.vec[2] = hist[1] /\ self.vec[0] = hist[2]
    /\ self.vec[1] = INFINITY
====
